---- MODULE Spec2Model ----
(***************************************************************************)
(* External-test harness of the compiler: scripts/externalTests/common.py  *)
(* (TestConfig, TestRunner, the preset catalogue, run_test) driven with    *)
(* the Foundry runner of test/externalTests/runners/foundry.py, as the     *)
(* prb-math test script does.                                              *)
(*                                                                         *)
(* Strings the code takes apart character by character (the preset names)  *)
(* are sequences of one-character strings; all other strings are opaque.   *)
(***************************************************************************)
EXTENDS Integers, Sequences, FiniteSets, TLC

VARIABLES
    config,        \* the TestConfig handed to the runner
    COMPILE_ONLY,  \* os.environ.get("COMPILE_ONLY") == "1"
    argv,          \* command line: solc_binary_type, solcjs_src_dir
    world,         \* what the external tools and the repository look like
    pc,            \* position of the process in the script / run_test
    dirs,          \* the directories that exist among tmp_dir, solc_dir, test_dir
    cwd,           \* current working directory of the process
    env,           \* runner.env: value of FOUNDRY_PROFILE (or unset)
    sources,       \* state of the *.sol files under test_dir, per origin
    package_json,  \* state of test_dir/package.json
    foundry_toml,  \* test_dir/foundry.toml: sequence of sections
    presets,       \* run_test local `presets` (a set)
    todo,          \* the presets the for loop has still to visit, in iteration order
    preset,        \* loop variable of run_test
    settings,      \* run_test local `settings`
    solc_version,  \* run_test local `solc_version`
    calls,         \* the runner/stage calls made so far, in order
    error,         \* the exception that ended the run, if any
    on_dir         \* last on_local_test_dir call: cwd before it and cwd seen by the body

vars ==
    <<config, COMPILE_ONLY, argv, world, pc, dirs, cwd, env, sources, package_json,
      foundry_toml, presets, todo, preset, settings, solc_version, calls, error, on_dir>>

inputs ==
    <<config, COMPILE_ONLY, argv, world>>

----------------------------------------------------------------------------
(* Bounds of the model *)

\* longest compile_only_presets list drawn for the generated configurations
MaxCompileOnly ==
    1

\* longest settings_presets list drawn for the generated configurations
MaxSettings ==
    2

\* number of runner methods a script calls directly on a runner
MaxCallerCalls ==
    2

----------------------------------------------------------------------------
(* Generic helpers *)

Range(s) ==
    {s[i] : i \in DOMAIN s}

\* faulty variant: the elements are visited as a list would hold them, one of
\* them twice
Perms_repeating(S) ==
    {s \in [1..(Cardinality(S) + 1) -> S] : \A x \in S : \E i \in DOMAIN s : s[i] = x}

RECURSIVE Perms(_)
Perms(S) ==
    IF S = {} THEN {<<>>}
    ELSE UNION {{<<x>> \o p : p \in Perms(S \ {x})} : x \in S}

SeqsUpTo(S, n) ==
    UNION {[1..k -> S] : k \in 0..n}

IsPrefix(s, t) ==
    /\ Len(s) <= Len(t)
    /\ SubSeq(t, 1, Len(s)) = s

IsSuffix(s, t) ==
    /\ Len(s) <= Len(t)
    /\ SubSeq(t, Len(t) - Len(s) + 1, Len(t)) = s

----------------------------------------------------------------------------
(* The preset catalogue *)

P_legacy_no_optimize ==
    <<"l","e","g","a","c","y","-","n","o","-","o","p","t","i","m","i","z","e">>
P_ir_no_optimize ==
    <<"i","r","-","n","o","-","o","p","t","i","m","i","z","e">>
P_legacy_optimize_evm_only ==
    <<"l","e","g","a","c","y","-","o","p","t","i","m","i","z","e","-","e","v","m","-","o","n","l","y">>
P_ir_optimize_evm_only ==
    <<"i","r","-","o","p","t","i","m","i","z","e","-","e","v","m","-","o","n","l","y">>
P_legacy_optimize_evm_yul ==
    <<"l","e","g","a","c","y","-","o","p","t","i","m","i","z","e","-","e","v","m","+","y","u","l">>
P_ir_optimize_evm_yul ==
    <<"i","r","-","o","p","t","i","m","i","z","e","-","e","v","m","+","y","u","l">>

\* a name outside the catalogue, as a caller may put into a TestConfig
P_unknown ==
    <<"i","r","-","f","a","s","t">>

AVAILABLE_PRESETS ==
    << P_legacy_no_optimize,
       P_ir_no_optimize,
       P_legacy_optimize_evm_only,
       P_ir_optimize_evm_only,
       P_legacy_optimize_evm_yul,
       P_ir_optimize_evm_yul >>

CURRENT_EVM_VERSION ==
    "shanghai"

NoPreset ==
    <<>>

NoSettings ==
    [raised |-> "none"]

\* helper function compiler_settings(evm_version, via_ir, optimizer, yul)
compiler_settings(evm_version, via_ir, optimizer, yul) ==
    [ optimizer  |-> [enabled |-> optimizer, details |-> [yul |-> yul]],
      evmVersion |-> evm_version,
      viaIR      |-> via_ir ]

\* the dict `switch` of settings_from_preset
switch(p, evm_version) ==
    CASE p = P_legacy_no_optimize       -> compiler_settings(evm_version, "false", "false", "false")
      [] p = P_ir_no_optimize           -> compiler_settings(evm_version, "true", "false", "false")
      [] p = P_legacy_optimize_evm_only -> compiler_settings(evm_version, "false", "true", "false")
      [] p = P_ir_optimize_evm_only     -> compiler_settings(evm_version, "true", "true", "false")
      [] p = P_legacy_optimize_evm_yul  -> compiler_settings(evm_version, "false", "true", "true")
      [] p = P_ir_optimize_evm_yul      -> compiler_settings(evm_version, "true", "true", "true")

\* faulty variant: an unrecognised name falls back to the default settings
settings_from_preset_default(p, evm_version) ==
    IF p \in Range(AVAILABLE_PRESETS)
    THEN switch(p, evm_version)
    ELSE compiler_settings(evm_version, "false", "false", "false")

\* faulty variant: the ir/legacy rows of the optimize-evm-only presets swapped
settings_from_preset_swapped(p, evm_version) ==
    IF p \notin Range(AVAILABLE_PRESETS) THEN [raised |-> "AssertionError"]
    ELSE IF p = P_ir_optimize_evm_only THEN switch(P_legacy_optimize_evm_only, evm_version)
    ELSE IF p = P_legacy_optimize_evm_only THEN switch(P_ir_optimize_evm_only, evm_version)
    ELSE switch(p, evm_version)

\* settings_from_preset: the result dict, or [raised |-> ...] when an assert fails
settings_from_preset(p, evm_version) ==
    IF p \notin Range(AVAILABLE_PRESETS) THEN [raised |-> "AssertionError"]
    ELSE switch(p, evm_version)

IsSettings(s) ==
    "raised" \notin DOMAIN s

\* faulty variant: the compile-only presets are left out of the selection
selected_presets_settings_only(c) ==
    Range(c.settings_presets)

\* TestConfig.selected_presets
selected_presets(c) ==
    Range(c.compile_only_presets \o c.settings_presets)

----------------------------------------------------------------------------
(* FoundryRunner.profile_name: re.sub(r"(\-|\+)+", "_", preset) *)

IsDashOrPlus(ch) ==
    ch \in {"-", "+"}

RECURSIVE SkipRun(_)
SkipRun(s) ==
    IF s # <<>> /\ IsDashOrPlus(Head(s)) THEN SkipRun(Tail(s)) ELSE s

\* faulty variant: only '-' is replaced
RECURSIVE profile_name_dash_only(_)
profile_name_dash_only(s) ==
    IF s = <<>> THEN <<>>
    ELSE IF Head(s) = "-" THEN <<"_">> \o profile_name_dash_only(Tail(s))
    ELSE <<Head(s)>> \o profile_name_dash_only(Tail(s))

RECURSIVE profile_name(_)
profile_name(s) ==
    IF s = <<>> THEN <<>>
    ELSE IF IsDashOrPlus(Head(s)) THEN <<"_">> \o profile_name(SkipRun(Tail(s)))
    ELSE <<Head(s)>> \o profile_name(Tail(s))

\* FoundryRunner.profile_section, as the fields of the section it formats
profile_section(profile_fields) ==
    [ name        |-> profile_fields.name,
      solc        |-> profile_fields.solc,
      evm_version |-> profile_fields.evm_version,
      optimizer   |-> profile_fields.optimizer,
      via_ir      |-> profile_fields.via_ir,
      yul         |-> profile_fields.yul ]

----------------------------------------------------------------------------
(* Inputs: configurations, command lines, the outside world *)

RefTypes ==
    {"commit", "branch", "tag", "svn"}

BuildDependencies ==
    {"nodejs", "rust"}

EvmVersions ==
    {CURRENT_EVM_VERSION, "paris"}

\* names the generated preset lists are drawn from
ShortNames ==
    {P_ir_no_optimize, P_legacy_optimize_evm_yul, P_unknown}

\* TestConfig(...) of test/externalTests/prb-math.py
PrbMathConfig ==
    [ name                 |-> "PRBMath",
      repo_url             |-> "https://github.com/PaulRBerg/prb-math.git",
      ref_type             |-> "branch",
      ref                  |-> "main",
      build_dependency     |-> "rust",
      compile_only_presets |-> <<P_ir_no_optimize>>,
      settings_presets     |-> << P_ir_optimize_evm_only,
                                  P_ir_optimize_evm_yul,
                                  P_legacy_optimize_evm_only,
                                  P_legacy_optimize_evm_yul,
                                  P_legacy_no_optimize >>,
      evm_version          |-> CURRENT_EVM_VERSION ]

\* configurations that vary the preset lists and the platform version
PresetConfigs ==
    { [PrbMathConfig EXCEPT !.compile_only_presets = co,
                            !.settings_presets = sp,
                            !.evm_version = v] :
        co \in SeqsUpTo(ShortNames, MaxCompileOnly),
        sp \in SeqsUpTo(ShortNames, MaxSettings),
        v \in EvmVersions }

\* configurations that vary the reference type and the build dependency
StageConfigs ==
    { [PrbMathConfig EXCEPT !.compile_only_presets = <<P_ir_no_optimize>>,
                            !.settings_presets = <<P_legacy_optimize_evm_yul>>,
                            !.ref_type = rt,
                            !.build_dependency = bd] :
        rt \in RefTypes, bd \in BuildDependencies }

\* parse_command_line: solc_binary_type has choices native/solcjs
Argvs ==
    [solc_binary_type : {"native", "solcjs"}, solcjs_src_dir : {"", "local"}]

NativeArgv ==
    [solc_binary_type |-> "native", solcjs_src_dir |-> ""]

\* shapes of the text the compiler prints for --version
SolcOutputs ==
    {"full", "no_plus", "trailing_dash", "no_colon", "multiline"}

Worlds ==
    [ solc_output          : SolcOutputs,
      has_gitmodules       : BOOLEAN,
      has_package_json     : BOOLEAN,
      install_adds_sources : BOOLEAN,
      has_node             : BOOLEAN,
      has_forge            : BOOLEAN ]

UsualWorld ==
    [ solc_output          |-> "full",
      has_gitmodules       |-> TRUE,
      has_package_json     |-> FALSE,
      install_adds_sources |-> FALSE,
      has_node             |-> TRUE,
      has_forge            |-> TRUE ]

Inputs ==
    ({PrbMathConfig} \X BOOLEAN \X {NativeArgv} \X {UsualWorld})
    \cup (PresetConfigs \X BOOLEAN \X {NativeArgv} \X {UsualWorld})
    \cup (StageConfigs \X {FALSE} \X Argvs \X Worlds)

----------------------------------------------------------------------------
(* State after process start *)

NoError ==
    [stage |-> "none", type |-> "none", msg |-> ""]

NoProfile ==
    <<>>

NoSources ==
    [project |-> "absent", submodules |-> "absent", installed |-> "absent"]

Call(op, p) ==
    [op |-> op, preset |-> p]

Init ==
    /\ \E i \in Inputs :
        /\ config = i[1]
        /\ COMPILE_ONLY = i[2]
        /\ argv = i[3]
        /\ world = i[4]
    /\ pc = "start"
    /\ dirs = {}
    /\ cwd = "start"
    /\ env = NoProfile
    /\ sources = NoSources
    /\ package_json = "absent"
    /\ foundry_toml = <<>>
    /\ presets = {}
    /\ todo = <<>>
    /\ preset = NoPreset
    /\ settings = NoSettings
    /\ solc_version = "unset"
    /\ calls = <<>>
    /\ error = NoError
    /\ on_dir = [before |-> "none", body |-> "none"]

----------------------------------------------------------------------------
(* Control flow of the script and of run_test *)

\* faulty variant: a failed compile is swallowed and the loop goes on
next_pc_swallow(stage, ok) ==
    IF ~ok /\ stage # "compile" THEN "failed"
    ELSE CASE stage = "TestConfig"        -> "TestRunner"
           [] stage = "TestRunner"        -> "run_test"
           [] stage = "run_test"          -> "setup_solc"
           [] stage = "setup_solc"        -> "download_project"
           [] stage = "download_project"  -> "setup_environment"
           [] stage = "setup_environment" -> "compiler_settings"
           [] stage = "compiler_settings" -> "for"
           [] stage = "for"               -> "compile"
           [] stage = "compile"           -> "if"
           [] stage = "if"                -> "for"
           [] stage = "for_end"           -> "clean"
           [] stage = "clean"             -> "done"
           [] stage = "caller"            -> "caller"

\* faulty variant: the environment is prepared before the project is fetched
next_pc_swapped(stage, ok) ==
    IF ~ok THEN "failed"
    ELSE CASE stage = "TestConfig"        -> "TestRunner"
           [] stage = "TestRunner"        -> "run_test"
           [] stage = "run_test"          -> "setup_solc"
           [] stage = "setup_solc"        -> "setup_environment"
           [] stage = "setup_environment" -> "download_project"
           [] stage = "download_project"  -> "compiler_settings"
           [] stage = "compiler_settings" -> "for"
           [] stage = "for"               -> "compile"
           [] stage = "compile"           -> "if"
           [] stage = "if"                -> "for"
           [] stage = "for_end"           -> "clean"
           [] stage = "clean"             -> "done"
           [] stage = "caller"            -> "caller"

\* the statement reached when `stage` returns (ok) or raises (~ok): the script
\* and run_test are straight-line code without try/except, so an exception
\* leaves them at once; a runner method called from elsewhere returns there
next_pc(stage, ok) ==
    IF ~ok THEN "failed"
    ELSE CASE stage = "TestConfig"        -> "TestRunner"
           [] stage = "TestRunner"        -> "run_test"
           [] stage = "run_test"          -> "setup_solc"
           [] stage = "setup_solc"        -> "download_project"
           [] stage = "download_project"  -> "setup_environment"
           [] stage = "setup_environment" -> "compiler_settings"
           [] stage = "compiler_settings" -> "for"
           [] stage = "for"               -> "compile"
           [] stage = "compile"           -> "if"
           [] stage = "if"                -> "for"
           [] stage = "for_end"           -> "clean"
           [] stage = "clean"             -> "done"
           [] stage = "caller"            -> "caller"

Return(stage) ==
    /\ pc' = next_pc(stage, TRUE)
    /\ error' = error

Raise(stage, type, msg) ==
    /\ pc' = next_pc(stage, FALSE)
    /\ error' = [stage |-> stage, type |-> type, msg |-> msg]

\* faulty variant: the global override is ignored
skip_test_config_only(p) ==
    p \in Range(config.compile_only_presets)

\* faulty variant: compile-only presets are tested as well
skip_test_env_only(p) ==
    COMPILE_ONLY

\* the condition of the if in the loop of run_test
skip_test(p) ==
    COMPILE_ONLY \/ p \in Range(config.compile_only_presets)

----------------------------------------------------------------------------
(* Construction *)

\* TestConfig(...): the generated dataclass __init__ stores the fields as given
TestConfig_init ==
    /\ pc = "start"
    /\ Return("TestConfig")
    /\ UNCHANGED <<inputs, dirs, cwd, env, sources, package_json, foundry_toml,
                   presets, todo, preset, settings, solc_version, calls, on_dir>>

\* TestRunner.__init__
TestRunner_init ==
    /\ pc = "TestRunner"
    /\ \/ /\ argv.solc_binary_type = "native"
          /\ argv.solcjs_src_dir # ""
          /\ Raise("TestRunner", "AssertionError", "")
          /\ UNCHANGED <<dirs, env>>
       \/ /\ argv.solc_binary_type = "native" => argv.solcjs_src_dir = ""
          /\ env' = NoProfile
          /\ dirs' = dirs \cup {"tmp_dir"}
          /\ Return("TestRunner")
    /\ UNCHANGED <<inputs, cwd, sources, package_json, foundry_toml,
                   presets, todo, preset, settings, solc_version, calls, on_dir>>

\* faulty variant: the union is built in place, with extend on the
\* configuration's own compile_only_presets list
after_selected_presets_extend(c) ==
    [c EXCEPT !.compile_only_presets = @ \o c.settings_presets]

\* the configuration after a call of selected_presets: `+` builds a new list
\* and set() a new set, the two lists of the configuration stay as they were
after_selected_presets(c) ==
    c

\* run_test, up to the print of the selected presets
run_test_begin ==
    /\ pc = "run_test"
    /\ presets' = selected_presets(config)
    /\ config' = after_selected_presets(config)
    /\ Return("run_test")
    /\ UNCHANGED <<COMPILE_ONLY, argv, world, dirs, cwd, env, sources, package_json,
                   foundry_toml, todo, preset, settings, solc_version, calls, on_dir>>

----------------------------------------------------------------------------
(* Compiler version *)

\* parse_solc_version: SOLC_FULL_VERSION_REGEX does not match across a line break
parse_solc_version(output) ==
    IF output = "multiline" THEN "RuntimeError"
    ELSE IF output = "no_colon" THEN "full"
    ELSE output

\* get_solc_short_version: SOLC_SHORT_VERSION_REGEX needs a '+' after the digits
\* or a '-' at the very end; in the second case group(1) is None
get_solc_short_version(full_version) ==
    CASE full_version = "full"          -> "short"
      [] full_version = "trailing_dash" -> "None"
      [] OTHER                          -> "RuntimeError"

\* TestRunner.setup_solc
setup_solc ==
    /\ pc = "setup_solc"
    /\ calls' = Append(calls, Call("setup_solc", NoPreset))
    /\ \/ /\ argv.solc_binary_type = "native"
          /\ \/ /\ world.solc_output = "no_colon"
                /\ Raise("setup_solc", "IndexError", "")
                /\ UNCHANGED solc_version
             \/ /\ world.solc_output # "no_colon"
                /\ parse_solc_version(world.solc_output) = "RuntimeError"
                /\ Raise("setup_solc", "RuntimeError", "Solc version could not be found")
                /\ UNCHANGED solc_version
             \/ /\ world.solc_output # "no_colon"
                /\ parse_solc_version(world.solc_output) # "RuntimeError"
                /\ solc_version' = parse_solc_version(world.solc_output)
                /\ Return("setup_solc")
          /\ UNCHANGED <<dirs, cwd>>
       \/ /\ argv.solc_binary_type = "solcjs"
          /\ argv.solcjs_src_dir = ""
          /\ \/ /\ cwd' = "tmp_dir"
                /\ Raise("setup_solc", "CalledProcessError", "git clone")
                /\ UNCHANGED <<dirs, solc_version>>
             \/ /\ cwd' = "tmp_dir"
                /\ Raise("setup_solc", "RuntimeError", "Failed to clone the project.")
                /\ UNCHANGED <<dirs, solc_version>>
             \/ /\ cwd' = "solc_dir"
                /\ dirs' = dirs \cup {"solc_dir"}
                /\ \/ /\ Raise("setup_solc", "RuntimeError", "NPM not found.")
                      /\ UNCHANGED solc_version
                   \/ /\ Raise("setup_solc", "CalledProcessError", "npm")
                      /\ UNCHANGED solc_version
                   \/ /\ Raise("setup_solc", "WrongBinaryType", "")
                      /\ UNCHANGED solc_version
                   \/ /\ parse_solc_version(world.solc_output) = "RuntimeError"
                      /\ Raise("setup_solc", "RuntimeError", "Solc version could not be found")
                      /\ UNCHANGED solc_version
                   \/ /\ parse_solc_version(world.solc_output) # "RuntimeError"
                      /\ solc_version' = parse_solc_version(world.solc_output)
                      /\ Return("setup_solc")
       \/ /\ argv.solc_binary_type = "solcjs"
          /\ argv.solcjs_src_dir # ""
          /\ dirs' = dirs \cup {"solc_dir"}
          /\ \/ /\ Raise("setup_solc", "FileNotFoundError", "rmtree")
                /\ UNCHANGED <<cwd, solc_version>>
             \/ /\ Raise("setup_solc", "RuntimeError", "NPM not found.")
                /\ UNCHANGED <<cwd, solc_version>>
             \/ /\ cwd' = "solc_dir"
                /\ \/ /\ Raise("setup_solc", "CalledProcessError", "npm")
                      /\ UNCHANGED solc_version
                   \/ /\ Raise("setup_solc", "WrongBinaryType", "")
                      /\ UNCHANGED solc_version
                   \/ /\ parse_solc_version(world.solc_output) = "RuntimeError"
                      /\ Raise("setup_solc", "RuntimeError", "Solc version could not be found")
                      /\ UNCHANGED solc_version
                   \/ /\ parse_solc_version(world.solc_output) # "RuntimeError"
                      /\ solc_version' = parse_solc_version(world.solc_output)
                      /\ Return("setup_solc")
    /\ UNCHANGED <<inputs, env, sources, package_json, foundry_toml,
                   presets, todo, preset, settings, on_dir>>

----------------------------------------------------------------------------
(* Fetching the project and preparing the environment *)

\* the project's own foundry.toml, as fetched
UpstreamSection ==
    [ name        |-> <<"d","e","f","a","u","l","t">>,
      solc        |-> "",
      evm_version |-> "",
      optimizer   |-> "",
      via_ir      |-> "",
      yul         |-> "" ]

Fetched(with_submodules) ==
    [sources EXCEPT !.project = "pinned",
                    !.submodules = IF with_submodules THEN "pinned" ELSE "absent"]

\* download_project from the point where the work tree is in place:
\* the optional submodule checkout
Checkout ==
    /\ package_json' = IF world.has_package_json THEN "original" ELSE "absent"
    /\ foundry_toml' = <<UpstreamSection>>
    /\ \/ /\ world.has_gitmodules
          /\ sources' = Fetched(FALSE)
          /\ Raise("download_project", "CalledProcessError", "git submodule")
       \/ /\ sources' = Fetched(world.has_gitmodules)
          /\ Return("download_project")

\* download_project(runner.test_dir, repo_url, ref_type, ref)
download_project ==
    /\ pc = "download_project"
    /\ calls' = Append(calls, Call("download_project", NoPreset))
    /\ \/ /\ config.ref_type \notin {"commit", "branch", "tag"}
          /\ Raise("download_project", "AssertionError", "")
          /\ UNCHANGED <<dirs, cwd, sources, package_json, foundry_toml>>
       \/ /\ config.ref_type = "commit"
          /\ dirs' = dirs \cup {"test_dir"}
          /\ cwd' = "test_dir"
          /\ \/ /\ Raise("download_project", "CalledProcessError", "git fetch")
                /\ UNCHANGED <<sources, package_json, foundry_toml>>
             \/ Checkout
       \/ /\ config.ref_type \in {"branch", "tag"}
          /\ \/ /\ cwd' = "tmp_dir"
                /\ Raise("download_project", "CalledProcessError", "git clone")
                /\ UNCHANGED <<dirs, sources, package_json, foundry_toml>>
             \/ /\ cwd' = "tmp_dir"
                /\ Raise("download_project", "RuntimeError", "Failed to clone the project.")
                /\ UNCHANGED <<dirs, sources, package_json, foundry_toml>>
             \/ /\ cwd' = "test_dir"
                /\ dirs' = dirs \cup {"test_dir"}
                /\ Checkout
    /\ UNCHANGED <<inputs, env, presets, todo, preset, settings, solc_version, on_dir>>

\* replace_version_pragmas: every *.sol file under test_dir is rewritten
replace_version_pragmas(src) ==
    [g \in DOMAIN src |-> IF src[g] = "pinned" THEN "rewritten" ELSE src[g]]

\* prepare_node_env: which("node") is not None
node_found ==
    world.has_node

\* faulty variant: the runner does not look for forge
forge_found_unchecked ==
    TRUE

\* FoundryRunner.setup_environment: which("forge") is not None
forge_found ==
    world.has_forge

\* FoundryRunner.setup_environment: TestRunner.setup_environment, then the
\* check that forge is installed
setup_environment ==
    /\ pc = "setup_environment"
    /\ calls' = Append(calls, Call("setup_environment", NoPreset))
    /\ IF config.build_dependency = "nodejs" /\ ~node_found
       THEN /\ Raise("setup_environment", "RuntimeError", "nodejs not found.")
            /\ UNCHANGED <<sources, package_json>>
       ELSE IF config.build_dependency = "nodejs" /\ package_json = "absent"
       THEN /\ Raise("setup_environment", "FileNotFoundError", "package.json not found.")
            /\ UNCHANGED <<sources, package_json>>
       ELSE /\ package_json' = IF config.build_dependency = "nodejs"
                               THEN "hooks_disabled" ELSE package_json
            /\ sources' = replace_version_pragmas(sources)
            /\ IF forge_found
               THEN Return("setup_environment")
               ELSE Raise("setup_environment", "RuntimeError", "Forge not found.")
    /\ UNCHANGED <<inputs, dirs, cwd, env, foundry_toml,
                   presets, todo, preset, settings, solc_version, on_dir>>

----------------------------------------------------------------------------
(* Runner operations run inside the test directory *)

\* faulty variant: the wrapper enters the parent of the test directory
on_local_test_dir_parent ==
    "tmp_dir"

\* on_local_test_dir: the directory f changes into before it calls fn
on_local_test_dir ==
    "test_dir"

\* the wrapper f of on_local_test_dir around the body of a runner method;
\* os.chdir raises when the directory is missing, and then fn is not called
Wrapped(op, p, Body, NotCalled) ==
    /\ calls' = Append(calls, Call(op, p))
    /\ IF "test_dir" \in dirs
       THEN /\ cwd' = on_local_test_dir
            /\ on_dir' = [before |-> cwd, body |-> on_local_test_dir]
            /\ Body
       ELSE /\ Raise(op, "FileNotFoundError", "chdir")
            /\ on_dir' = [before |-> cwd, body |-> "none"]
            /\ UNCHANGED cwd
            /\ NotCalled

\* the section FoundryRunner.compiler_settings builds for one preset
Section(p) ==
    LET s == settings_from_preset(p, config.evm_version) IN
    profile_section([ name        |-> profile_name(p),
                      solc        |-> "solc_binary_path",
                      evm_version |-> config.evm_version,
                      optimizer   |-> s.optimizer.enabled,
                      via_ir      |-> s.viaIR,
                      yul         |-> s.optimizer.details.yul ])

\* faulty variant: foundry.toml is opened for writing, its content is lost
append_profiles_truncating(file, profiles) ==
    profiles

\* FoundryRunner.compiler_settings: foundry.toml is opened in mode "a" and
\* the profiles are written in the order they were built
append_profiles(file, profiles) ==
    file \o profiles

\* FoundryRunner.compiler_settings(presets); `ret` is where the caller goes on.
\* The set is visited in the order the interpreter's string hashing gives it,
\* which is the order every later iteration of the same set sees.
compiler_settings_method(ps, ret) ==
    Wrapped("compiler_settings", NoPreset,
        IF \E p \in ps : ~IsSettings(settings_from_preset(p, config.evm_version))
        THEN /\ Raise("compiler_settings", "AssertionError", "")
             /\ UNCHANGED <<foundry_toml, sources, todo>>
        ELSE \E order \in Perms(ps) :
             /\ todo' = order
             /\ foundry_toml' = append_profiles(foundry_toml,
                                 [i \in 1..Len(order) |-> Section(order[i])])
             /\ \/ /\ Raise("compiler_settings", "CalledProcessError", "forge install")
                   /\ UNCHANGED sources
                \/ /\ sources' = IF world.install_adds_sources
                                 THEN [sources EXCEPT !.installed = "pinned"]
                                 ELSE sources
                   /\ Return(ret),
        UNCHANGED <<foundry_toml, sources, todo>>)

\* faulty variant: FOUNDRY_PROFILE is set only when the environment has none
compile_method_stale(p, ret) ==
    Wrapped("compile", p,
        /\ env' = IF env = NoProfile THEN profile_name(p) ELSE env
        /\ \/ Raise("compile", "CalledProcessError", "forge build")
           \/ Return(ret),
        UNCHANGED env)

\* FoundryRunner.compile(preset)
compile_method(p, ret) ==
    Wrapped("compile", p,
        /\ env' = profile_name(p)
        /\ \/ Raise("compile", "CalledProcessError", "forge build")
           \/ Return(ret),
        UNCHANGED env)

\* FoundryRunner.run_test()
run_test_method(p, ret) ==
    Wrapped("run_test", p,
        \/ Raise("run_test", "CalledProcessError", "forge test")
        \/ Return(ret),
        TRUE)

\* TestRunner.clean()
clean_method(ret) ==
    Wrapped("clean", NoPreset,
        /\ dirs' = {}
        /\ sources' = NoSources
        /\ package_json' = "absent"
        /\ foundry_toml' = <<>>
        /\ Return(ret),
        UNCHANGED <<dirs, sources, package_json, foundry_toml>>)

----------------------------------------------------------------------------
(* run_test from the configuration of the runner on *)

run_test_compiler_settings ==
    /\ pc = "compiler_settings"
    /\ compiler_settings_method(presets, "compiler_settings")
    /\ UNCHANGED <<inputs, dirs, env, package_json, presets, preset, settings, solc_version>>

\* head of the for loop and the statements before runner.compile
run_test_for ==
    /\ pc = "for"
    /\ IF todo = <<>>
       THEN /\ Return("for_end")
            /\ UNCHANGED <<todo, preset, settings>>
       ELSE /\ preset' = Head(todo)
            /\ todo' = Tail(todo)
            /\ LET s == settings_from_preset(Head(todo), config.evm_version) IN
               IF ~IsSettings(s)
               THEN /\ Raise("settings_from_preset", s.raised, "")
                    /\ UNCHANGED settings
               ELSE /\ settings' = s
                    /\ IF get_solc_short_version(solc_version) = "RuntimeError"
                       THEN Raise("get_solc_short_version", "RuntimeError",
                                  "Error extracting short version string")
                       ELSE Return("for")
    /\ UNCHANGED <<inputs, dirs, cwd, env, sources, package_json, foundry_toml,
                   presets, solc_version, calls, on_dir>>

run_test_compile ==
    /\ pc = "compile"
    /\ compile_method(preset, "compile")
    /\ UNCHANGED <<inputs, dirs, sources, package_json, foundry_toml,
                   presets, todo, preset, settings, solc_version>>

run_test_skip ==
    /\ pc = "if"
    /\ skip_test(preset)
    /\ Return("if")
    /\ UNCHANGED <<inputs, dirs, cwd, env, sources, package_json, foundry_toml,
                   presets, todo, preset, settings, solc_version, calls, on_dir>>

run_test_test ==
    /\ pc = "if"
    /\ ~skip_test(preset)
    /\ run_test_method(preset, "if")
    /\ UNCHANGED <<inputs, dirs, env, sources, package_json, foundry_toml,
                   presets, todo, preset, settings, solc_version>>

run_test_clean ==
    /\ pc = "clean"
    /\ clean_method("clean")
    /\ UNCHANGED <<inputs, env, presets, todo, preset, settings, solc_version>>

Next ==
    \/ TestConfig_init
    \/ TestRunner_init
    \/ run_test_begin
    \/ setup_solc
    \/ download_project
    \/ setup_environment
    \/ run_test_compiler_settings
    \/ run_test_for
    \/ run_test_compile
    \/ run_test_skip
    \/ run_test_test
    \/ run_test_clean

Spec ==
    Init /\ [][Next]_vars

----------------------------------------------------------------------------
(* The runner's methods called directly: a script that holds a runner, with  *)
(* the project fetched or not, calls clean, compiler_settings, compile and   *)
(* run_test from whatever directory it is in.                                *)

CallerConfigs ==
    {c \in PresetConfigs : c.evm_version = CURRENT_EVM_VERSION /\ Len(c.settings_presets) <= 1}

InitCaller ==
    /\ config \in CallerConfigs
    /\ COMPILE_ONLY = FALSE
    /\ argv = NativeArgv
    /\ world = UsualWorld
    /\ pc = "caller"
    /\ dirs \in {{"tmp_dir"}, {"tmp_dir", "test_dir"}}
    /\ cwd \in {"start", "tmp_dir"} \cup (dirs \cap {"test_dir"})
    /\ env = NoProfile
    /\ sources = IF "test_dir" \in dirs
                 THEN [project |-> "rewritten", submodules |-> "rewritten", installed |-> "absent"]
                 ELSE NoSources
    /\ package_json = "absent"
    /\ foundry_toml = IF "test_dir" \in dirs THEN <<UpstreamSection>> ELSE <<>>
    /\ presets = selected_presets(config)
    /\ todo = <<>>
    /\ preset = NoPreset
    /\ settings = NoSettings
    /\ solc_version = "full"
    /\ calls = <<>>
    /\ error = NoError
    /\ on_dir = [before |-> "none", body |-> "none"]

CallerMayCall ==
    /\ pc = "caller"
    /\ Len(calls) < MaxCallerCalls

caller_compiler_settings ==
    /\ CallerMayCall
    /\ compiler_settings_method(presets, "caller")
    /\ UNCHANGED <<inputs, dirs, env, package_json, presets, preset, settings, solc_version>>

caller_compile ==
    /\ CallerMayCall
    /\ \E p \in presets :
          /\ preset' = p
          /\ compile_method(p, "caller")
    /\ UNCHANGED <<inputs, dirs, sources, package_json, foundry_toml,
                   presets, todo, settings, solc_version>>

caller_run_test ==
    /\ CallerMayCall
    /\ run_test_method(preset, "caller")
    /\ UNCHANGED <<inputs, dirs, env, sources, package_json, foundry_toml,
                   presets, todo, preset, settings, solc_version>>

caller_clean ==
    /\ CallerMayCall
    /\ clean_method("caller")
    /\ UNCHANGED <<inputs, env, presets, todo, preset, settings, solc_version>>

NextCaller ==
    \/ caller_compiler_settings
    \/ caller_compile
    \/ caller_run_test
    \/ caller_clean

SpecCaller ==
    InitCaller /\ [][NextCaller]_vars

----------------------------------------------------------------------------
(* Vocabulary of the properties *)

CallsOf(op) ==
    {i \in DOMAIN calls : calls[i].op = op}

CountOp(op) ==
    Cardinality(CallsOf(op))

Count(op, p) ==
    Cardinality({i \in DOMAIN calls : calls[i] = Call(op, p)})

\* position of a call in the order the stages are documented to have
StageRank(op) ==
    CASE op = "setup_solc"        -> 1
      [] op = "download_project"  -> 2
      [] op = "setup_environment" -> 3
      [] op = "compiler_settings" -> 4
      [] op = "compile"           -> 5
      [] op = "run_test"          -> 5
      [] op = "clean"             -> 6

\* the call that raised is the last call made
FailedCallIsLast ==
    /\ calls # <<>>
    /\ calls[Len(calls)].op = error.stage

RunEnded ==
    \/ pc = "done"
    \/ pc = "failed" /\ error.stage \notin {"TestConfig", "TestRunner"}

Recognized(p) ==
    p \in Range(AVAILABLE_PRESETS)

InvalidConfig ==
    \/ config.ref_type \notin {"commit", "branch", "tag"}
    \/ \E p \in selected_presets(config) : ~Recognized(p)

\* the preset name with each '-' and each '+' replaced by '_'
ReplaceEach(s) ==
    [i \in DOMAIN s |-> IF s[i] \in {"-", "+"} THEN "_" ELSE s[i]]

TrueIff(text, cond) ==
    text = IF cond THEN "true" ELSE "false"

\* the settings the preset's name stands for
SettingsByName(p, v, s) ==
    /\ IsSettings(s)
    /\ s.evmVersion = v
    /\ TrueIff(s.viaIR, IsPrefix(<<"i","r","-">>, p))
    /\ TrueIff(s.optimizer.enabled,
               ~IsSuffix(<<"-","n","o","-","o","p","t","i","m","i","z","e">>, p))
    /\ TrueIff(s.optimizer.details.yul,
               IsSuffix(<<"-","o","p","t","i","m","i","z","e","-","e","v","m","+","y","u","l">>, p))

\* the preset of the latest compile call
LastCompiled ==
    LET S == CallsOf("compile") IN
    IF S = {} THEN NoPreset
    ELSE calls[CHOOSE i \in S : \A j \in S : j <= i].preset

\* profile_name and settings_from_preset over the whole catalogue
CatalogueProfileNames ==
    [p \in Range(AVAILABLE_PRESETS) |-> profile_name(p)]

CatalogueProfileNamesDistinct ==
    \A p \in Range(AVAILABLE_PRESETS) :
       /\ CatalogueProfileNames[p] = ReplaceEach(p)
       /\ \A i \in DOMAIN CatalogueProfileNames[p] :
             CatalogueProfileNames[p][i] \notin {"-", "+"}
       /\ \A q \in Range(AVAILABLE_PRESETS) :
             CatalogueProfileNames[p] = CatalogueProfileNames[q] => p = q

CatalogueSettingsFollowNames ==
    \A p \in Range(AVAILABLE_PRESETS) : \A v \in EvmVersions :
       SettingsByName(p, v, settings_from_preset(p, v))

UnknownNameHasNoSettings ==
    \A v \in EvmVersions : ~IsSettings(settings_from_preset(P_unknown, v))

----------------------------------------------------------------------------
(* Properties *)

\* C1: when a run of run_test has ended, with success or with the failure of
\* any stage, the temporary directory made by the runner's constructor has
\* been removed and clean has run exactly once.
C1_CleanupOnEveryExit ==
    RunEnded => ("tmp_dir" \notin dirs /\ CountOp("clean") = 1)

\* C2: the stages are called in the order setup_solc, download_project,
\* setup_environment, compiler_settings, compile/run_test loop, clean; none is
\* skipped or repeated, and once a stage has failed nothing more is called.
C2_StageOrder ==
    /\ \A i, j \in DOMAIN calls :
          i < j => StageRank(calls[i].op) <= StageRank(calls[j].op)
    /\ \A i \in DOMAIN calls :
          \A r \in 1..4 :
             r < StageRank(calls[i].op) =>
                \E j \in 1..(i-1) : StageRank(calls[j].op) = r
    /\ \A op \in {"setup_solc", "download_project", "setup_environment",
                  "compiler_settings", "clean"} : CountOp(op) <= 1
    /\ error # NoError =>
          /\ pc = "failed"
          /\ error.stage \in {"setup_solc", "download_project", "setup_environment",
                              "compiler_settings", "compile", "run_test", "clean"}
                => FailedCallIsLast
    /\ CountOp("clean") = 1 => error.stage \in {"none", "clean"}

\* a complete run: every stage was called, the loop visited two presets
C2_Witness ==
    /\ pc = "done"
    /\ CountOp("compile") >= 2
    /\ CountOp("run_test") >= 1
    /\ CountOp("clean") = 1


\* the loop of run_test is past the if statement of the iteration that made call i
PastIf(i) ==
    \/ i < Len(calls)
    \/ pc \in {"for", "compile", "clean", "done"}

\* C3: run_test is called for a preset exactly when the preset is not
\* compile-only and COMPILE_ONLY is not 1, and only right after that preset's
\* compile has returned; every selected preset is compiled before clean; with
\* COMPILE_ONLY set no test is run, and a failed compile still ends the run.
C3_TestExactlyWhenNotCompileOnly ==
    /\ \A i \in CallsOf("run_test") :
          /\ i > 1
          /\ calls[i-1] = Call("compile", calls[i].preset)
          /\ calls[i].preset \notin Range(config.compile_only_presets)
          /\ ~COMPILE_ONLY
    /\ \A i \in CallsOf("compile") :
          /\ calls[i].preset \in selected_presets(config)
          /\ (PastIf(i) /\ ~COMPILE_ONLY
                /\ calls[i].preset \notin Range(config.compile_only_presets))
             => (i < Len(calls) /\ calls[i+1] = Call("run_test", calls[i].preset))
    /\ pc \in {"clean", "done"} =>
          \A p \in selected_presets(config) : Count("compile", p) = 1
    /\ COMPILE_ONLY => CountOp("run_test") = 0
    /\ (COMPILE_ONLY /\ error.stage = "compile") => (pc = "failed" /\ FailedCallIsLast)

\* a finished run that skipped the test of a compile-only preset and ran
\* the test of another one
C3_Witness ==
    /\ pc = "done"
    /\ ~COMPILE_ONLY
    /\ \E p \in Range(config.compile_only_presets) :
          Count("compile", p) = 1 /\ Count("run_test", p) = 0
    /\ \E p \in selected_presets(config) : Count("run_test", p) = 1

\* C4: a run without failure and without COMPILE_ONLY compiles every selected
\* preset exactly once, tests exactly once every selected preset that is not
\* compile-only, and ends with exactly one clean: 6 compiles, 5 tests and
\* 1 clean for the six presets with ir-no-optimize compile-only.
C4_CallCountsOfCleanRun ==
    (pc = "done" /\ ~COMPILE_ONLY) =>
        /\ \A p \in selected_presets(config) :
              /\ Count("compile", p) = 1
              /\ Count("run_test", p) =
                    IF p \in Range(config.compile_only_presets) THEN 0 ELSE 1
        /\ CountOp("compile") = Cardinality(selected_presets(config))
        /\ CountOp("run_test") =
              Cardinality(selected_presets(config) \ Range(config.compile_only_presets))
        /\ CountOp("clean") = 1
        /\ calls[Len(calls)].op = "clean"
        /\ config = PrbMathConfig =>
              /\ CountOp("compile") = 6
              /\ CountOp("run_test") = 5

\* the prb-math configuration has run to the end
C4_Witness ==
    /\ pc = "done"
    /\ ~COMPILE_ONLY
    /\ config = PrbMathConfig
    /\ CountOp("compile") = 6

\* C5: a failed command ends the run: after a failed compile or test nothing
\* is called for the presets still to visit, and no stage, compile or test is
\* ever called twice for the same preset.
C5_FailureIsTerminal ==
    /\ \A i, j \in DOMAIN calls : (i # j) => calls[i] # calls[j]
    /\ error # NoError => pc = "failed"
    /\ (pc = "failed" /\ error.stage \in {"compile", "run_test"}) =>
          /\ calls[Len(calls)] = Call(error.stage, preset)
          /\ \A q \in Range(todo) :
                Count("compile", q) = 0 /\ Count("run_test", q) = 0
          /\ CountOp("clean") = 0

\* a compile failed after an earlier preset went through, with presets left
C5_Witness ==
    /\ pc = "failed"
    /\ error.stage = "compile"
    /\ CountOp("compile") >= 2
    /\ todo # <<>>

\* C6: a configuration with a bad ref_type or an unrecognised preset name is
\* rejected when it is constructed, before anything has been created, set up,
\* fetched or written.
C6_InvalidConfigRejectedAtConstruction ==
    InvalidConfig =>
        /\ pc \in {"start", "failed"}
        /\ pc = "failed" => error.stage = "TestConfig"
        /\ dirs = {}
        /\ calls = <<>>
        /\ foundry_toml = <<>>

\* C8: the settings computed for a preset and a platform version are the
\* ones its name stands for: evmVersion is the version, viaIR is true
\* exactly for ir-*, optimizer.enabled exactly for the presets not named
\* *-no-optimize, optimizer.details.yul exactly for *-optimize-evm+yul.
C8_SettingsFollowPresetName ==
    /\ CatalogueSettingsFollowNames
    /\ settings # NoSettings =>
          SettingsByName(preset, config.evm_version, settings)

\* the loop holds the settings of an optimising legacy preset for a platform
\* version other than the default
C8_Witness ==
    /\ pc = "compile"
    /\ preset = P_legacy_optimize_evm_yul
    /\ config.evm_version = "paris"
    /\ settings = compiler_settings("paris", "false", "true", "true")

\* C9: settings_from_preset gives no settings for a name outside the six
\* presets: the call fails, no settings and no profile section exist for
\* such a name, and the run that selected it fails with the assertion.
C9_UnrecognizedPresetFails ==
    /\ UnknownNameHasNoSettings
    /\ settings # NoSettings => Recognized(preset)
    /\ \A i \in DOMAIN foundry_toml :
          foundry_toml[i] = UpstreamSection
          \/ \E p \in Range(AVAILABLE_PRESETS) : foundry_toml[i].name = CatalogueProfileNames[p]
    /\ \A i \in CallsOf("compile") : Recognized(calls[i].preset)
    /\ ((\E p \in presets : ~Recognized(p)) /\ CountOp("compiler_settings") = 1) =>
          /\ pc = "failed"
          /\ error.stage = "compiler_settings"
          /\ error.type = "AssertionError"
          /\ foundry_toml = <<UpstreamSection>>

\* a run whose selection holds an unrecognised name has failed in
\* compiler_settings
C9_Witness ==
    /\ pc = "failed"
    /\ error.stage = "compiler_settings"
    /\ error.type = "AssertionError"
    /\ P_unknown \in presets

\* C10: profile_name is defined on the six presets, gives the name with every
\* '-' and '+' replaced by '_', and gives different presets different names.
C10_ProfileNames ==
    /\ CatalogueProfileNamesDistinct
    /\ env # NoProfile =>
          LET p == LastCompiled IN
          /\ env = ReplaceEach(p)
          /\ \A i \in DOMAIN env : env[i] \notin {"-", "+"}
          /\ \A q \in Range(AVAILABLE_PRESETS) \ {p} : CatalogueProfileNames[q] # env

\* a compile has set the profile of a preset with both '-' and '+' in its name
C10_Witness ==
    /\ LastCompiled = P_ir_optimize_evm_yul
    /\ env = <<"i","r","_","o","p","t","i","m","i","z","e","_","e","v","m","_","y","u","l">>


\* C7: a runner method wrapped by on_local_test_dir runs its body with the
\* test directory as current directory, and when it exits, by return or by
\* exception, the directory that was current before the call is current again.
C7_WorkingDirectoryRestored ==
    on_dir.before # "none" =>
        /\ on_dir.body \in {"test_dir", "none"}
        /\ cwd = on_dir.before

\* the names a configuration can list
ListedNames ==
    Range(AVAILABLE_PRESETS) \cup ShortNames

\* C11: selected_presets is exactly the union of compile_only_presets and
\* settings_presets: it holds every name of either list and no other name, a
\* name listed in both lists or twice is in it once, and such a name is
\* iterated and compiled once in a run.
C11_SelectedPresetsIsUnion ==
    /\ calls # <<>> =>
          \A p \in ListedNames :
             p \in presets <=>
                \/ \E i \in DOMAIN config.compile_only_presets : config.compile_only_presets[i] = p
                \/ \E i \in DOMAIN config.settings_presets : config.settings_presets[i] = p
    /\ \A i, j \in DOMAIN todo : todo[i] = todo[j] => i = j
    /\ \A p \in ListedNames :
          /\ Count("compile", p) <= 1
          /\ (p \in Range(config.compile_only_presets \o config.settings_presets)
              /\ pc \in {"clean", "done"}) => Count("compile", p) = 1

\* a finished run of a configuration that lists one preset three times, once
\* as compile-only and twice in settings_presets, compiled it once
C11_Witness ==
    /\ pc = "done"
    /\ config.compile_only_presets = <<P_ir_no_optimize>>
    /\ config.settings_presets = <<P_ir_no_optimize, P_ir_no_optimize>>
    /\ presets = {P_ir_no_optimize}
    /\ Count("compile", P_ir_no_optimize) = 1

\* the compiler's version output has the shape the two extractions need: one
\* line with a version of digits and dots followed by '+' and the build
\* (solc puts "Version: " before it, solcjs does not)
ExpectedVersionShape ==
    \/ world.solc_output = "full"
    \/ world.solc_output = "no_colon" /\ argv.solc_binary_type = "solcjs"

\* C12: when the compiler's version output has not the expected shape, so
\* that the full or the short version cannot be extracted, the run fails in
\* setup_solc, before the project is fetched and before any later stage.
C12_VersionFailureInResolveStage ==
    (CountOp("setup_solc") = 1 /\ ~ExpectedVersionShape) =>
        /\ pc = "failed"
        /\ error.stage = "setup_solc"
        /\ CountOp("download_project") = 0

\* a tool the run needs cannot be found on the search path: forge, or node
\* when the project builds with nodejs
ToolMissing ==
    \/ ~world.has_forge
    \/ config.build_dependency = "nodejs" /\ ~world.has_node

\* C13: when forge, or node for a nodejs project, is not found,
\* setup_environment fails and the run ends there: compiler_settings, compile
\* and run_test are never called.
C13_MissingToolFailsSetup ==
    (CountOp("setup_environment") = 1 /\ ToolMissing) =>
        /\ pc = "failed"
        /\ error.stage = "setup_environment"
        /\ error.msg \in {"Forge not found.", "nodejs not found.", "package.json not found."}
        /\ error.msg = "package.json not found." => config.build_dependency = "nodejs"
        /\ ~world.has_forge /\ config.build_dependency # "nodejs" => error.msg = "Forge not found."
        /\ config.build_dependency = "nodejs" /\ ~world.has_node => error.msg = "nodejs not found."
        /\ CountOp("compiler_settings") = 0
        /\ CountOp("compile") = 0
        /\ CountOp("run_test") = 0

\* setup_environment has failed for a rust project because forge is missing,
\* after the project was fetched
C13_Witness ==
    /\ pc = "failed"
    /\ error = [stage |-> "setup_environment", type |-> "RuntimeError", msg |-> "Forge not found."]
    /\ config.build_dependency = "rust"
    /\ ~world.has_forge
    /\ CountOp("download_project") = 1

\* C14: download_project of a branch or a tag either ends with the project
\* directory in place or fails with the RuntimeError "Failed to clone the
\* project."; every failure of the clone that leaves no directory gives
\* that error.
C14_CloneFailureIsSpecificError ==
    (calls # <<>> /\ calls[Len(calls)].op = "download_project"
     /\ config.ref_type \in {"branch", "tag"}) =>
        \/ "test_dir" \in dirs
        \/ /\ pc = "failed"
           /\ error = [stage |-> "download_project", type |-> "RuntimeError",
                       msg |-> "Failed to clone the project."]

\* C15: every compile(p) runs forge build with FOUNDRY_PROFILE =
\* profile_name(p), and every run_test of the run runs forge test right after
\* the successful compile of the same preset, with the FOUNDRY_PROFILE that
\* compile set and not one left over from another preset.
C15_ProfileOfLastCompile ==
    calls # <<>> =>
        LET n == Len(calls) IN
        /\ calls[n].op = "compile" =>
              /\ Recognized(calls[n].preset)
              /\ env = CatalogueProfileNames[calls[n].preset]
        /\ calls[n].op = "run_test" =>
              /\ n > 1
              /\ calls[n-1] = Call("compile", calls[n].preset)
              /\ env = CatalogueProfileNames[calls[n-1].preset]
              /\ \A i \in CallsOf("compile") :
                    calls[i].preset # calls[n].preset =>
                       env # CatalogueProfileNames[calls[i].preset]

\* the tests of a preset run after another preset was compiled before it
C15_Witness ==
    /\ calls # <<>>
    /\ calls[Len(calls)].op = "run_test"
    /\ CountOp("compile") >= 2
    /\ env = CatalogueProfileNames[calls[Len(calls)].preset]

\* the profile section of preset p: the name with '-' and '+' replaced, the
\* compiler path, the configuration's evm_version, the flags of the settings
DocumentedSection(p) ==
    LET s == settings_from_preset(p, config.evm_version) IN
    [ name        |-> ReplaceEach(p),
      solc        |-> "solc_binary_path",
      evm_version |-> config.evm_version,
      optimizer   |-> s.optimizer.enabled,
      via_ir      |-> s.viaIR,
      yul         |-> s.optimizer.details.yul ]

\* compiler_settings has written foundry.toml and the file is still there
ProfilesWritten ==
    /\ CountOp("compiler_settings") = 1
    /\ CountOp("clean") = 0
    /\ ~(error.stage = "compiler_settings"
         /\ error.type \in {"AssertionError", "FileNotFoundError"})

\* C16: compiler_settings is called once in a run, before the first compile,
\* and leaves foundry.toml as its previous content followed by exactly one
\* section for each distinct selected preset, with the compiler path, the
\* configuration's evm_version and the flags of that preset's settings; a
\* preset that is compiled has its section in the file.
C16_OneSectionPerPreset ==
    /\ CountOp("compiler_settings") <= 1
    /\ pc = "done" => CountOp("compiler_settings") = 1
    /\ \A i \in CallsOf("compile") :
          \E j \in 1..(i-1) : calls[j].op = "compiler_settings"
    /\ ProfilesWritten =>
          /\ Len(foundry_toml) = 1 + Cardinality(presets)
          /\ foundry_toml[1] = UpstreamSection
          /\ \A p \in presets :
                Cardinality({i \in 2..Len(foundry_toml) :
                                foundry_toml[i] = DocumentedSection(p)}) = 1
          /\ \A i \in CallsOf("compile") :
                \E k \in 2..Len(foundry_toml) :
                   foundry_toml[k].name = ReplaceEach(calls[i].preset)

\* the second of two presets is compiled with the file holding the project's
\* own section and one section for each of the two presets
C16_Witness ==
    /\ calls # <<>>
    /\ calls[Len(calls)].op = "compile"
    /\ CountOp("compile") = 2
    /\ Len(foundry_toml) = 3
    /\ foundry_toml[1] = UpstreamSection
    /\ \E k \in 2..3 : foundry_toml[k] = DocumentedSection(calls[Len(calls)].preset)

\* C17: from the first compile of a run on, no source file under the project
\* root holds a version pragma that was not rewritten: not the project's own
\* files, not those of the submodules, not those the install step fetched.
C17_PragmasRewrittenBeforeCompile ==
    CountOp("compile") >= 1 =>
        \A g \in DOMAIN sources : sources[g] # "pinned"

\* the presets in the order the configuration lists them
Listing ==
    config.compile_only_presets \o config.settings_presets

\* the place of the first mention of p in the listing
FirstIndex(p) ==
    CHOOSE k \in DOMAIN Listing :
       /\ Listing[k] = p
       /\ \A m \in 1..(k-1) : Listing[m] # p

\* C18 as stated: the loop compiles the presets in the order in which the
\* configuration lists them.
C18_ListingOrder ==
    \A i, j \in CallsOf("compile") :
       i < j => FirstIndex(calls[i].preset) < FirstIndex(calls[j].preset)

\* the presets the loop has taken from the iteration so far
Visited ==
    {calls[i].preset : i \in CallsOf("compile")}
    \cup (IF pc = "compile" THEN {preset} ELSE {})

\* C18: the loop visits every distinct selected preset once, in the order in
\* which the set returned by selected_presets is iterated: no preset is
\* compiled twice, what was visited and what is still to come make up the
\* selection, and run_test is called only right after the compile of the
\* same preset.
C18_EachPresetOnceInSetOrder ==
    /\ \A i, j \in CallsOf("compile") : calls[i].preset = calls[j].preset => i = j
    /\ Visited \subseteq presets
    /\ pc \in {"for", "compile", "if"} =>
          /\ Visited \cap Range(todo) = {}
          /\ Visited \cup Range(todo) = presets
          /\ Len(todo) = Cardinality(Range(todo))
    /\ pc \in {"clean", "done"} => Visited = presets
    /\ \A i \in CallsOf("run_test") :
          i > 1 /\ calls[i-1] = Call("compile", calls[i].preset)

\* a finished run that compiled the preset listed second before the preset
\* listed first
C18_Witness ==
    /\ pc = "done"
    /\ config.compile_only_presets = <<P_ir_no_optimize>>
    /\ config.settings_presets = <<P_legacy_optimize_evm_yul>>
    /\ \E i, j \in CallsOf("compile") :
          /\ i < j
          /\ calls[i].preset = P_legacy_optimize_evm_yul
          /\ calls[j].preset = P_ir_no_optimize

\* C19: no step of a run changes the configuration: name, repo_url,
\* ref_type, ref, build_dependency, compile_only_presets, settings_presets
\* and evm_version stay as they were constructed, so the selection printed
\* and passed to compiler_settings is the selection of the configuration the
\* loop reads.
C19_ConfigReadOnly ==
    /\ [][config' = config]_vars
    /\ [](calls # <<>> => presets = selected_presets(config))
    /\ [](pc \in {"for", "compile", "if"} =>
             Visited \cup Range(todo) = selected_presets(config))

\* a finished compile-only run of the prb-math configuration, with the
\* configuration as the script built it
C19_Witness ==
    /\ pc = "done"
    /\ COMPILE_ONLY
    /\ config = PrbMathConfig
    /\ presets = selected_presets(PrbMathConfig)
    /\ CountOp("compile") = 6

\* C20: whenever clean is called it succeeds and removes the temporary
\* directory, also when the test directory was never created: after the call
\* neither directory exists.
C20_CleanAlwaysRemovesTmpDir ==
    (calls # <<>> /\ calls[Len(calls)].op = "clean") =>
        /\ error = NoError
        /\ "tmp_dir" \notin dirs
        /\ "test_dir" \notin dirs

====
